---- MODULE Spec2Model ----
(***************************************************************************)
(* Model of camera_driver.c: a single V4L2 capture session (open device,   *)
(* negotiate format, map buffers, stream, convert one YUYV frame to RGB,   *)
(* dump it as a PPM file, tear down).  The build has PRINT_ENABLE == 0, so *)
(* every errno_exit() call of the source is compiled out.                  *)
(***************************************************************************)
EXTENDS Integers, Sequences, FiniteSets, TLC

\* ---------------------------------------------------------------- bounds
\* Total number of failing system calls, and of partial writes, the environment
\* injects in one run.
MaxFaults == 1
\* Largest buffer count the device grants on a successful VIDIOC_REQBUFS.
MaxGrant == 3
\* Largest byte count (bytesused) the device reports for a filled buffer.
MaxBytesUsed == 4
\* dump_ppm's running total is tracked down to -MaxNeg; every value below
\* passes the loop test (total < size) the same way, since size >= 0.
MaxNeg == 2
\* Width in bits of the scaled unsigned int on which the format clamp is
\* examined over its whole range, wrap-around included (32 in the build).
WordBits == 6
\* Largest byte count of the frames on which process_image is examined on
\* its own (two pixel pairs).
ConvBytes == 8

\* ------------------------------------------------------ program constants
HRES == 320
VRES == 240
ReqCount == 6

\* Symbolic values of the build
MAP_FAILED == "MAP_FAILED"
V4L2_PIX_FMT_YUYV == "YUYV"
PixelFormats == {V4L2_PIX_FMT_YUYV, "MJPG"}
NoBuf == 0 - 1

\* Byte counts a YUYV device reports: whole pixel pairs, or 0 for an empty frame.
BytesUsedSet == {n \in 0..MaxBytesUsed : n % 4 = 0}

\* Contents of device memory: a byte pattern, repeated.  The capture session
\* sees one of a few YUYV pixel pairs (Y0, U, Y1, V).
Quads == << <<16, 128, 235, 128>>, <<255, 0, 0, 255>> >>
FramePats == {Quads[k] : k \in 1..Len(Quads)}
FrameByte(pat, i) == pat[(i % Len(pat)) + 1]

VARIABLES
    pc,          \* position of the single thread of control
    exitCode,    \* "running", "EXIT_FAILURE" (exit()), 0 (camera_capture returned 0)
    fd,          \* static int fd
    is_capture,  \* static volatile bool is_capture
    fmt,         \* static struct v4l2_format fmt (the fields the program uses)
    req_count,   \* req.count of init_mmap
    n_buffers,   \* static unsigned int n_buffers
    buffers,     \* struct buffer *buffers: sequence, buffers[i+1] is C's buffers[i]
    i,           \* loop index of start_capturing / uninit_device
    granted,     \* buffer count the device granted for VIDIOC_REQBUFS (0: none)
    inQ,         \* device's incoming queue: indices queued and waiting to be filled
    doneQ,       \* device's outgoing queue: indices filled and waiting for VIDIOC_DQBUF
    streaming,   \* device state: VIDIOC_STREAMON in effect
    buf,         \* struct v4l2_buffer buf of read_frame: [index, bytesused], with r and errno,
                 \* the result of VIDIOC_DQBUF, and pat, the contents of the memory of buffer index
    readBuf,     \* index of the buffer whose memory process_image has read, or NoBuf
    framecnt,    \* unsigned int framecnt
    bigbuffer,   \* unsigned char bigbuffer[]: the prefix written so far
    dump,        \* locals of dump_ppm: [size, tag, dumpfd, total, pass]; pass is the parity of the write loop's passes
    files,       \* output files: tag -> [hdr, pix]
    sel,         \* capture_frame's r and errno after select(): <<r, errno>>
    failed,      \* setup and teardown system calls that returned -1 in this run
    faults,      \* number of failures injected so far
    calls,       \* teardown system calls issued, in order
    woken,       \* a select() of this run has ended otherwise than by timeout or EINTR
    stopAt,      \* session state in which signalHandler cleared is_capture, or "none"
    released     \* number of times uninit_device has released the pool (free(buffers))

vars == <<pc, exitCode, fd, is_capture, fmt, req_count, n_buffers, buffers, i,
          granted, inQ, doneQ, streaming, buf, readBuf, framecnt, bigbuffer,
          dump, files, sel, failed, faults, calls, woken, stopAt, released>>

\* ------------------------------------------------------------- helpers
CanFail == faults < MaxFaults

\* A setup call failing: remembered by name, counted against the budget.
Fail(name) == /\ CanFail
              /\ failed' = failed \cup {name}
              /\ faults' = faults + 1

\* A call of the capture loop failing: counted against the budget.
Fault == /\ CanFail
         /\ faults' = faults + 1
         /\ UNCHANGED failed

NoFail == UNCHANGED <<failed, faults>>

\* exit(EXIT_FAILURE)
Exit == /\ pc' = "exited"
        /\ exitCode' = "EXIT_FAILURE"

Max(a, b) == IF a > b THEN a ELSE b

\* Canonical values of locals that are out of scope.
NoLocalBuf  == [index |-> 0, bytesused |-> 0, pat |-> Quads[1], r |-> 0, errno |-> "none"]
NoLocalDump == [size |-> 0, tag |-> 0, dumpfd |-> -1, total |-> 0, pass |-> 0]
NoLocalSel  == <<1, "none">>

Init ==
    /\ pc = "open_device"
    /\ exitCode = "running"
    /\ fd = -1
    /\ is_capture = TRUE
    /\ fmt = [width |-> 0, height |-> 0, pixelformat |-> "NONE",
              bytesperline |-> 0, sizeimage |-> 0]
    /\ req_count = 0
    /\ n_buffers = 0
    /\ buffers = << >>
    /\ i = 0
    /\ granted = 0
    /\ inQ = << >>
    /\ doneQ = << >>
    /\ streaming = FALSE
    /\ buf = NoLocalBuf
    /\ readBuf = NoBuf
    /\ framecnt = 0
    /\ bigbuffer = << >>
    /\ dump = NoLocalDump
    /\ files = [t \in {} |-> << >>]
    /\ sel = NoLocalSel
    /\ failed = {}
    /\ faults = 0
    /\ calls = << >>
    /\ woken = FALSE
    /\ stopAt = "none"
    /\ released = 0

devVars   == <<inQ, doneQ, streaming>>
frameVars == <<buf, readBuf, framecnt, bigbuffer, dump, files, sel, woken>>
setupVars == <<fd, fmt, req_count, n_buffers, buffers, granted>>
tearVars  == <<calls, stopAt, released>>

Running == pc \notin {"exited", "done"}

\* Buffer b is owned by the device: queued to it and not yet dequeued.
DeviceOwned(b) == \/ \E k \in 1..Len(inQ) : inQ[k] = b
                  \/ \E k \in 1..Len(doneQ) : doneQ[k] = b

\* The session state of the capture state machine at position p.
Phase(p) ==
    IF p \in {"open_device", "init_device", "init_mmap", "init_mmap_loop",
              "start_capturing"} THEN "Idle"
    ELSE IF p \in {"capture_frame", "read_frame", "process_image", "dump_ppm",
                   "dump_ppm_write", "read_frame_qbuf", "capture_frame_sleep"}
         THEN "Streaming"
    ELSE IF p \in {"stop_capturing", "uninit_device", "close_device"} THEN "Draining"
    ELSE "Closed"

\* ------------------------------------------------------ signalHandler
\* SIGINT and SIGTERM clear is_capture; the handler does nothing else.
signalHandler ==
    /\ Running
    /\ \E sig \in {"SIGINT", "SIGTERM"} : is_capture' = FALSE
    /\ stopAt' = IF is_capture THEN Phase(pc) ELSE stopAt
    /\ UNCHANGED <<pc, exitCode, i, failed, faults, setupVars, devVars,
                   frameVars, calls, released>>

\* -------------------------------------------------------- open_device
\* stat fails, the path is no character device, or open fails: exit(EXIT_FAILURE).
open_device ==
    /\ pc = "open_device"
    /\ \E r \in {"ok", "stat_failed", "not_chr", "open_failed"} :
          IF r = "ok"
          THEN /\ fd' = 3
               /\ pc' = "init_device"
               /\ UNCHANGED exitCode
          ELSE /\ Exit
               /\ UNCHANGED fd
    /\ UNCHANGED <<is_capture, i, failed, faults, fmt, req_count, n_buffers,
                   buffers, granted, devVars, frameVars, tearVars>>

\* -------------------------------------------------------- init_device
\* Buggy driver paranoia: bytesperline and sizeimage are raised to their minimum.
\* The unsigned products stay far below 2^32 for the geometries modelled here.
ClampFmt(f) ==
    LET min1 == f.width * 2
        bpl  == IF f.bytesperline < min1 THEN min1 ELSE f.bytesperline
        min2 == bpl * f.height
        sz   == IF f.sizeimage < min2 THEN min2 ELSE f.sizeimage
    IN  [f EXCEPT !.bytesperline = bpl, !.sizeimage = sz]

\* The format the program asks for when force_format is set.
ForcedFmt == [width |-> HRES, height |-> VRES, pixelformat |-> V4L2_PIX_FMT_YUYV,
              bytesperline |-> 0, sizeimage |-> 0]

\* What the device may write back into fmt on a successful VIDIOC_S_FMT.
DeviceFmts == {[width |-> HRES, height |-> VRES, pixelformat |-> pf,
                bytesperline |-> bpl, sizeimage |-> sz] :
                  pf \in PixelFormats, bpl \in {0, 2 * HRES},
                  sz \in {0, 2 * HRES * VRES}}

\* VIDIOC_QUERYCAP and the capability tests, the ignored crop reset, then
\* VIDIOC_S_FMT (its failure is ignored in this build) and the clamp.
\* cap is not cleared: after a failed QUERYCAP other than EINVAL the capability
\* bits are whatever the stack held.
init_device ==
    /\ pc = "init_device"
    /\ \E q \in {"ok", "EINVAL", "other"}, caps \in SUBSET {"CAPTURE", "STREAMING"} :
          IF q = "EINVAL" \/ caps # {"CAPTURE", "STREAMING"}
          THEN /\ Exit
               /\ UNCHANGED <<fmt, failed, faults>>
          ELSE /\ UNCHANGED exitCode
               /\ pc' = "init_mmap"
               /\ \/ \E f \in DeviceFmts :
                        /\ fmt' = ClampFmt(f)
                        /\ NoFail
                  \/ /\ fmt' = ClampFmt(ForcedFmt)
                     /\ Fail("VIDIOC_S_FMT")
    /\ UNCHANGED <<is_capture, i, fd, req_count, n_buffers, buffers, granted,
                   devVars, frameVars, tearVars>>

\* ----------------------------------------------------------- init_mmap
\* Length the device reports for every buffer (VIDIOC_QUERYBUF).
BufLength == ((MaxBytesUsed + 3) \div 4) * 4

\* Buffer counts a successful VIDIOC_REQBUFS may write back: the small ones,
\* and the count that was asked for.
GrantSet == 0..MaxGrant \cup {ReqCount}

\* VIDIOC_REQBUFS with req.count = 6, the count test and calloc.
\* A failure other than EINVAL is ignored and leaves req.count as requested.
init_mmap ==
    /\ pc = "init_mmap"
    /\ \/ /\ Exit                                   \* EINVAL: no memory mapping
          /\ UNCHANGED <<req_count, granted, n_buffers, buffers, failed, faults>>
       \/ \E g \in GrantSet :
             /\ req_count' = g
             /\ granted' = g
             /\ NoFail
             /\ IF g < 2
                THEN Exit /\ UNCHANGED <<n_buffers, buffers>>
                ELSE \/ Exit /\ UNCHANGED <<n_buffers, buffers>>    \* calloc fails
                     \/ /\ n_buffers' = 0
                        /\ buffers' = << >>
                        /\ pc' = "init_mmap_loop"
                        /\ UNCHANGED exitCode
       \/ /\ Fail("VIDIOC_REQBUFS")
          /\ req_count' = ReqCount
          /\ granted' = 0
          /\ n_buffers' = 0
          /\ buffers' = << >>
          /\ pc' = "init_mmap_loop"
          /\ UNCHANGED exitCode
    /\ UNCHANGED <<is_capture, i, fd, fmt, devVars, frameVars, tearVars>>

\* Where init_mmap's loop goes after mapping buffer n (0-based).
InitMmapNext(n) == IF n + 1 < req_count THEN "init_mmap_loop" ELSE "start_capturing"

\* One pass of the loop: VIDIOC_QUERYBUF and mmap for buffer n_buffers.
\* Neither failure stops the loop in this build; a failed QUERYBUF leaves
\* buf.length = 0, for which mmap fails.
init_mmap_loop ==
    /\ pc = "init_mmap_loop"
    /\ n_buffers < req_count
    /\ \/ /\ buffers' = Append(buffers, [start |-> "mapped", length |-> BufLength])
          /\ NoFail
       \/ /\ buffers' = Append(buffers, [start |-> MAP_FAILED, length |-> BufLength])
          /\ Fail("mmap")
       \/ /\ buffers' = Append(buffers, [start |-> MAP_FAILED, length |-> 0])
          /\ Fail("VIDIOC_QUERYBUF")
    /\ pc' = InitMmapNext(n_buffers)
    /\ n_buffers' = n_buffers + 1
    /\ i' = 0
    /\ UNCHANGED <<exitCode, is_capture, fd, fmt, req_count, granted, devVars,
                   frameVars, tearVars>>

\* ------------------------------------------------------ start_capturing
\* One pass of the queueing loop: VIDIOC_QBUF of buffer i; a failure is ignored.
start_capturing ==
    /\ pc = "start_capturing"
    /\ i < n_buffers
    /\ \/ inQ' = Append(inQ, i) /\ NoFail
       \/ UNCHANGED inQ /\ Fail("VIDIOC_QBUF")
    /\ i' = i + 1
    /\ UNCHANGED <<pc, exitCode, is_capture, setupVars, doneQ, streaming,
                   frameVars, tearVars>>

\* VIDIOC_STREAMON after the loop; a failure is ignored.
start_capturing_streamon ==
    /\ pc = "start_capturing"
    /\ i = n_buffers
    /\ \/ streaming' = TRUE /\ NoFail
       \/ UNCHANGED streaming /\ Fail("VIDIOC_STREAMON")
    /\ pc' = "capture_frame"
    /\ UNCHANGED <<exitCode, is_capture, i, setupVars, inQ, doneQ, frameVars,
                   tearVars>>

\* The device, running beside the program, fills the buffer at the head of its
\* incoming queue.
DeviceFill ==
    /\ Running
    /\ streaming
    /\ inQ # << >>
    /\ doneQ' = Append(doneQ, Head(inQ))
    /\ inQ' = Tail(inQ)
    /\ UNCHANGED <<pc, exitCode, is_capture, i, failed, faults, setupVars,
                   streaming, frameVars, tearVars>>

\* -------------------------------------------------------- capture_frame
\* select() ended otherwise than by the timeout or by an interrupting signal.
WaitEnded(r, err) == ~(r = 0 \/ (r = -1 /\ err = "EINTR"))

\* select() on fd with a 2 second timeout, and what the loop does with r:
\*   r = -1 and EINTR: continue;  r = -1 otherwise: nothing (errno_exit is
\*   compiled out), so control falls to the r = 0 test and on to read_frame;
\*   r = 0: exit(EXIT_FAILURE);  r > 0: read_frame.
\* Variant: an interrupted wait is treated like every other error of select.
AfterSelect_EintrFatal(r, err) ==
    IF r = -1 \/ r = 0 THEN "exited" ELSE "read_frame"

\* Variant: a timeout is not fatal and control goes on to read_frame.
AfterSelect_TimeoutIgnored(r, err) ==
    IF r = -1 /\ err = "EINTR" THEN "capture_frame" ELSE "read_frame"

AfterSelect(r, err) ==
    IF r = -1 /\ err = "EINTR" THEN "capture_frame"
    ELSE IF r = 0 THEN "exited"
    ELSE "read_frame"

capture_frame ==
    /\ pc = "capture_frame"
    /\ \E o \in {<<1, "none">>, <<0, "none">>, <<-1, "EINTR">>, <<-1, "EBADF">>} :
          /\ o[1] = 0 => doneQ = << >>          \* a timeout: nothing was ready
          /\ IF o[1] = -1 /\ o[2] # "EINTR" THEN Fault ELSE NoFail
          /\ sel' = o
          /\ woken' = (woken \/ WaitEnded(o[1], o[2]))
          /\ pc' = AfterSelect(o[1], o[2])
          /\ exitCode' = IF pc' = "exited" THEN "EXIT_FAILURE" ELSE exitCode
    /\ buf' = NoLocalBuf                  \* read_frame's buf of the last pass is gone
    /\ UNCHANGED <<is_capture, i, setupVars, devVars, readBuf, framecnt,
                   bigbuffer, dump, files, tearVars>>

\* ----------------------------------------------------------- read_frame
\* Variant: buf is not cleared before the ioctl, so a stale byte count survives.
DqbufErrBuf_NoClear(err) ==
    [index |-> 0, bytesused |-> 4, pat |-> Quads[1], r |-> -1, errno |-> err]

\* buf after CLEAR(buf) and a VIDIOC_DQBUF that failed with errno err: the
\* ioctl wrote nothing.
DqbufErrBuf(err) ==
    [index |-> 0, bytesused |-> 0, pat |-> Quads[1], r |-> -1, errno |-> err]

\* Variant: only EAGAIN returns 0; EIO falls out of the switch like the rest.
AfterDqbufError_EioFalls(err) ==
    IF err = "EAGAIN" THEN "capture_frame" ELSE "process_image"

\* What read_frame does with a failed VIDIOC_DQBUF: EAGAIN and EIO return 0
\* (back to the wait); the switch has no default case in this build, so any
\* other errno falls out of it and on to process_image.
AfterDqbufError(err) ==
    IF err \in {"EAGAIN", "EIO"} THEN "capture_frame" ELSE "process_image"

\* VIDIOC_DQBUF and the assert on buf.index.
read_frame ==
    /\ pc = "read_frame"
    /\ \/ /\ doneQ # << >>                                   \* success
          /\ \E n \in BytesUsedSet, pat \in FramePats :
                buf' = [index |-> Head(doneQ), bytesused |-> n, pat |-> pat,
                        r |-> 0, errno |-> "none"]
          /\ doneQ' = Tail(doneQ)
          /\ NoFail
          /\ IF Head(doneQ) < n_buffers
             THEN pc' = "process_image" /\ UNCHANGED exitCode
             ELSE pc' = "exited" /\ exitCode' = "SIGABRT"
       \/ /\ \E err \in {"EAGAIN", "EIO"} :
                /\ err = "EAGAIN" => doneQ = << >>
                /\ buf' = DqbufErrBuf(err)
                /\ pc' = AfterDqbufError(err)
          /\ NoFail
          /\ UNCHANGED <<doneQ, exitCode>>
       \/ /\ Fault
          /\ buf' = DqbufErrBuf("EINVAL")
          /\ IF buf'.index < n_buffers
             THEN pc' = AfterDqbufError("EINVAL") /\ UNCHANGED exitCode
             ELSE pc' = "exited" /\ exitCode' = "SIGABRT"
          /\ UNCHANGED doneQ
    /\ sel' = NoLocalSel                  \* r is not read again
    /\ UNCHANGED <<is_capture, i, setupVars, inQ, streaming, readBuf, framecnt,
                   bigbuffer, dump, files, woken, tearVars>>

\* -------------------------------------------------------------- yuv2rgb
\* Variant: only the upper bound is enforced.
Clip_NoLower(x) == IF x > 255 THEN 255 ELSE x

Clip(x) == IF x > 255 THEN 255 ELSE IF x < 0 THEN 0 ELSE x

\* <<r, g, b>> as stored through the unsigned char pointers; >> floors.
yuv2rgb(y, u, v) ==
    LET c == y - 16
        d == u - 128
        e == v - 128
        r1 == (298 * c + 409 * e + 128) \div 256
        g1 == (298 * c - 100 * d - 208 * e + 128) \div 256
        b1 == (298 * c + 516 * d + 128) \div 256
    IN  <<Clip(r1) % 256, Clip(g1) % 256, Clip(b1) % 256>>

\* -------------------------------------------------------- process_image
\* Number of passes of the conversion loop for (i = 0; i < size; i += 4).
LoopPasses(size) == IF size <= 0 THEN 0 ELSE (size + 3) \div 4

\* Indices of pptr[] the loop reads: i .. i + 3 in every pass.
ReadIdx(size) == {4 * k + j : k \in 0..(LoopPasses(size) - 1), j \in 0..3}

\* Indices of bigbuffer[] the loop writes: newi .. newi + 5 in every pass.
WriteIdx(size) == {6 * k + j : k \in 0..(LoopPasses(size) - 1), j \in 0..5}

\* unsigned char bigbuffer[(1280 * 960)]
BigBufferSize == 1280 * 960

\* Variant: the second pixel of a pair is converted from the luma of the first.
ConvertFrame_SameLuma(pat, size, old) ==
    LET n == 6 * LoopPasses(size)
    IN  [j \in 1..Max(Len(old), n) |->
           IF j <= n
           THEN LET k == (j - 1) \div 6
                    o == (j - 1) % 6
                IN  yuv2rgb(FrameByte(pat, 4 * k), FrameByte(pat, 4 * k + 1),
                            FrameByte(pat, 4 * k + 3))[(o % 3) + 1]
           ELSE old[j]]

\* bigbuffer after the conversion loop over a frame of `size` bytes.
ConvertFrame(pat, size, old) ==
    LET n == 6 * LoopPasses(size)
    IN  [j \in 1..Max(Len(old), n) |->
           IF j <= n
           THEN LET k == (j - 1) \div 6
                    o == (j - 1) % 6
                    y == FrameByte(pat, 4 * k + (IF o < 3 THEN 0 ELSE 2))
                    u == FrameByte(pat, 4 * k + 1)
                    v == FrameByte(pat, 4 * k + 3)
                IN  yuv2rgb(y, u, v)[(o % 3) + 1]
           ELSE old[j]]

\* Variant: dump_ppm is handed the byte count of the YUYV frame.
DumpSize_Unscaled(size) == size

\* The size argument of dump_ppm: ((size * 6) / 4), in int arithmetic.
DumpSize(size) == (size * 6) \div 4

\* framecnt++, then for YUYV the conversion loop (reading the frame through p)
\* and the call of dump_ppm; any other format only prints an error.
process_image ==
    /\ pc = "process_image"
    /\ framecnt' = framecnt + 1
    /\ IF fmt.pixelformat = V4L2_PIX_FMT_YUYV
       THEN IF ReadIdx(buf.bytesused) # {} /\ buffers[buf.index + 1].start # "mapped"
            THEN /\ pc' = "exited"                \* reads through MAP_FAILED
                 /\ exitCode' = "SIGSEGV"
                 /\ UNCHANGED <<readBuf, bigbuffer, dump>>
            ELSE /\ readBuf' = IF ReadIdx(buf.bytesused) # {} THEN buf.index ELSE NoBuf
                 /\ bigbuffer' = ConvertFrame(buf.pat, buf.bytesused, bigbuffer)
                 /\ dump' = [size |-> DumpSize(buf.bytesused), tag |-> framecnt',
                             dumpfd |-> -1, total |-> 0, pass |-> 0]
                 /\ pc' = "dump_ppm"
                 /\ UNCHANGED exitCode
       ELSE /\ pc' = "read_frame_qbuf"
            /\ UNCHANGED <<readBuf, bigbuffer, dump, exitCode>>
    /\ UNCHANGED <<is_capture, i, failed, faults, setupVars, devVars, buf, files,
                   sel, woken, tearVars>>

\* ------------------------------------------ process_image on its own
\* Chroma bytes tried: the ends of the range and the values around 128.
ChromaVals == {0, 1, 127, 128, 129, 254, 255}

\* Frame contents tried: two pixel pairs (Y0, U, Y1, V) with every luma value,
\* the second pair with the lumas and the chromas of the first exchanged.
ConvPats == {<<y, u, 255 - y, v, 255 - y, v, y, u>> :
                y \in 0..255, u \in ChromaVals, v \in ChromaVals}

\* Length of the mapping of each buffer: whole pixel pairs.
ConvLength == ((ConvBytes + 3) \div 4) * 4

\* read_frame has dequeued buffer 0 of a streaming two-buffer session and is
\* about to call process_image on it; the device reported any byte count up
\* to ConvBytes.
ConvInit ==
    /\ pc = "process_image"
    /\ exitCode = "running"
    /\ fd = 3
    /\ is_capture = TRUE
    /\ fmt = ClampFmt([ForcedFmt EXCEPT !.bytesperline = 2 * HRES])
    /\ req_count = 2
    /\ n_buffers = 2
    /\ buffers = [k \in 1..2 |-> [start |-> "mapped", length |-> ConvLength]]
    /\ i = 2
    /\ granted = 2
    /\ inQ = <<1>>
    /\ doneQ = << >>
    /\ streaming = TRUE
    /\ \E n \in 0..ConvBytes, pat \in ConvPats :
          buf = [index |-> 0, bytesused |-> n, pat |-> pat, r |-> 0, errno |-> "none"]
    /\ readBuf = NoBuf
    /\ framecnt = 0
    /\ bigbuffer = << >>
    /\ dump = NoLocalDump
    /\ files = [t \in {} |-> << >>]
    /\ sel = NoLocalSel
    /\ failed = {}
    /\ faults = 0
    /\ calls = << >>
    /\ woken = TRUE
    /\ stopAt = "none"
    /\ released = 0

ConvNext == process_image

ConvSpec == ConvInit /\ [][ConvNext]_vars

\* ------------------------------------------------------------- dump_ppm
\* char ppm_dumpname[] = "frames/test00000000.ppm": 23 characters and the
\* terminator.  Element k + 1 of the sequence is ppm_dumpname[k].
ppm_dumpname ==
    <<"f", "r", "a", "m", "e", "s", "/", "t", "e", "s", "t",
      "0", "0", "0", "0", "0", "0", "0", "0", ".", "p", "p", "m", "NUL">>

DigitChar(d) == <<"0", "1", "2", "3", "4", "5", "6", "7", "8", "9">>[d + 1]

\* The decimal digits of n >= 0.
RECURSIVE Decimal(_)
Decimal(n) ==
    IF n < 10 THEN <<DigitChar(n)>> ELSE Append(Decimal(n \div 10), DigitChar(n % 10))

\* "%08d": the digits, padded on the left with zeros to at least 8 characters.
Format08d(n) ==
    LET d == Decimal(n)
    IN  IF Len(d) >= 8 THEN d ELSE [k \in 1..(8 - Len(d)) |-> "0"] \o d

\* snprintf(&arr[at], size, ...) producing str: at most size - 1 characters
\* of str, then the terminator.
Snprintf(arr, at, size, str) ==
    LET n == IF Len(str) < size - 1 THEN Len(str) ELSE size - 1
    IN  [k \in DOMAIN arr |->
            IF at <= k - 1 /\ k - 1 < at + n THEN str[k - at]
            ELSE IF k - 1 = at + n THEN "NUL"
            ELSE arr[k]]

\* strlen(&arr[at])
Strlen(arr, at) ==
    CHOOSE n \in 0..Len(arr) :
        /\ arr[at + n + 1] = "NUL"
        /\ \A j \in 0..(n - 1) : arr[at + j + 1] # "NUL"

\* strncat(&arr[at], src, n): at most n characters of src are appended to the
\* string that starts at arr[at], then the terminator.
Strncat(arr, at, src, n) ==
    LET e == at + Strlen(arr, at)
        c == IF Len(src) < n THEN Len(src) ELSE n
    IN  [k \in DOMAIN arr |->
            IF e <= k - 1 /\ k - 1 < e + c THEN src[k - e]
            ELSE IF k - 1 = e + c THEN "NUL"
            ELSE arr[k]]

\* The path dump_ppm opens for `tag`: ppm_dumpname after the snprintf of the
\* tag at offset 11 and the strncat of ".ppm" at offset 15.  Every call
\* overwrites the digits and the terminator of the one before.
PpmName(tag) ==
    LET a == Strncat(Snprintf(ppm_dumpname, 11, 9, Format08d(tag)),
                     15, <<".", "p", "p", "m">>, 5)
    IN  SubSeq(a, 1, Strlen(a, 0))

\* The output files with file `tag` created, holding `hdr` headers and no pixels.
Created(fs, tag, hdr) ==
    [t \in DOMAIN fs \cup {tag} |->
        IF t = tag THEN [hdr |-> hdr, pix |-> << >>] ELSE fs[t]]

\* open() of the output file, then the write of the header, whose result is
\* overwritten unread.  A file is [hdr, pix]: the number of headers at its
\* start and the pixel bytes after them.
dump_ppm ==
    /\ pc = "dump_ppm"
    /\ \/ /\ dump' = [dump EXCEPT !.dumpfd = 4, !.total = 0]
          /\ \/ /\ files' = Created(files, dump.tag, 1)
                /\ NoFail
             \/ /\ files' = Created(files, dump.tag, 0)
                /\ Fault
       \/ /\ dump' = [dump EXCEPT !.dumpfd = -1, !.total = 0]
          /\ UNCHANGED files
          /\ Fault
    /\ pc' = "dump_ppm_write"
    /\ UNCHANGED <<exitCode, is_capture, i, setupVars, devVars, buf, readBuf,
                   framecnt, bigbuffer, sel, woken, tearVars>>

\* The values write(dumpfd, p, size) may return: an error, nothing, a partial
\* write (half of the bytes) or all of them.
WriteResults(dumpfd, size) ==
    IF dumpfd = -1 THEN {-1}
    ELSE {-1, 0} \cup {k \in 1..size : k \in {size \div 2, size}}

\* The file after write(dumpfd, p, size) returned `written`: every call starts
\* at p again.
FileAfterWrite(file, p, written) ==
    IF written > 0 THEN file \o SubSeq(p, 1, written) ELSE file

\* total += written
TotalAfterWrite(total, written) == Max(total + written, 0 - MaxNeg)

\* The do-while test: another pass while total < size.
AfterWrite(total, size) == IF total < size THEN "dump_ppm_write" ELSE "read_frame_qbuf"

\* One pass of the do-while loop; when it ends: printf, close, and process_image
\* returns to read_frame.  A failed and a partial write count against the budget;
\* a write of nothing does not.
dump_ppm_write ==
    /\ pc = "dump_ppm_write"
    /\ \E written \in WriteResults(dump.dumpfd, dump.size) :
          /\ IF dump.dumpfd # -1 /\ (written = -1 \/ (0 < written /\ written < dump.size))
             THEN Fault ELSE NoFail
          /\ files' = IF dump.dumpfd = -1 THEN files
                      ELSE [files EXCEPT ![dump.tag].pix =
                               FileAfterWrite(@, bigbuffer, written)]
          /\ dump' = [dump EXCEPT !.total = TotalAfterWrite(@, written),
                                  !.pass = 1 - @]
          /\ pc' = AfterWrite(dump'.total, dump.size)
    /\ UNCHANGED <<exitCode, is_capture, i, setupVars, devVars, buf, readBuf,
                   framecnt, bigbuffer, sel, woken, tearVars>>

\* ------------------------------------------------- read_frame, continued
\* VIDIOC_QBUF of buf after process_image; a failure is ignored; return 1.
\* The device rejects a buffer it already holds.
read_frame_qbuf ==
    /\ pc = "read_frame_qbuf"
    /\ IF DeviceOwned(buf.index)
       THEN UNCHANGED <<failed, faults, inQ>>
       ELSE \/ inQ' = Append(inQ, buf.index) /\ NoFail
            \/ UNCHANGED inQ /\ Fault
    /\ readBuf' = NoBuf
    /\ buf' = NoLocalBuf                  \* read_frame returns: its locals and
    /\ dump' = NoLocalDump                \* those of dump_ppm are gone
    /\ pc' = "capture_frame_sleep"
    /\ UNCHANGED <<exitCode, is_capture, i, setupVars, doneQ, streaming,
                   framecnt, bigbuffer, files, sel, woken, tearVars>>

\* ------------------------------------------------ capture_frame, continued
\* Variant: camera_capture goes from capture_frame straight to uninit_device.
AfterSleep_SkipStop(r) == IF r # 0 THEN "capture_frame" ELSE "uninit_device"

\* if (nanosleep(...) != 0) perror("nanosleep"); else break;
AfterSleep(r) == IF r # 0 THEN "capture_frame" ELSE "stop_capturing"

capture_frame_sleep ==
    /\ pc = "capture_frame_sleep"
    /\ \E r \in {0, -1} :
          /\ IF r = -1 THEN Fault ELSE NoFail
          /\ pc' = AfterSleep(r)
    /\ UNCHANGED <<exitCode, is_capture, i, setupVars, devVars, frameVars, tearVars>>

\* ------------------------------------------------------------- teardown
\* Variant: a failed VIDIOC_STREAMOFF ends the run (errno_exit compiled in).
AfterStreamoff_Fatal(r) == IF r = -1 THEN "exited" ELSE "uninit_device"

\* camera_capture after capture_frame returned: is_capture = false, then
\* stop_capturing: VIDIOC_STREAMOFF, whose failure is ignored.
AfterStreamoff(r) == "uninit_device"

stop_capturing ==
    /\ pc = "stop_capturing"
    /\ is_capture' = FALSE
    /\ calls' = Append(calls, "VIDIOC_STREAMOFF")
    /\ \E r \in {0, -1} :
          /\ IF r = 0
             THEN /\ streaming' = FALSE
                  /\ inQ' = << >>
                  /\ doneQ' = << >>
                  /\ NoFail
             ELSE /\ UNCHANGED devVars
                  /\ Fail("VIDIOC_STREAMOFF")
          /\ pc' = AfterStreamoff(r)
    /\ i' = 0
    /\ UNCHANGED <<exitCode, setupVars, frameVars, stopAt, released>>

\* uninit_device: one pass of the munmap loop; a failure is ignored.
\* munmap of a MAP_FAILED start fails.
AfterMunmap(r) == "uninit_device"

uninit_device ==
    /\ pc = "uninit_device"
    /\ i < n_buffers
    /\ calls' = Append(calls, "munmap")
    /\ \E r \in {0, -1} :
          /\ (buffers[i + 1].start # "mapped") => r = -1
          /\ IF r = 0
             THEN /\ buffers' = [buffers EXCEPT ![i + 1].start = "unmapped"]
                  /\ NoFail
             ELSE /\ UNCHANGED buffers
                  /\ IF buffers[i + 1].start # "mapped"
                     THEN failed' = failed \cup {"munmap"} /\ UNCHANGED faults
                     ELSE Fail("munmap")
          /\ pc' = AfterMunmap(r)
    /\ i' = i + 1
    /\ UNCHANGED <<exitCode, is_capture, fd, fmt, req_count, n_buffers, granted,
                   devVars, frameVars, stopAt, released>>

\* uninit_device after the loop: free(buffers).
uninit_device_free ==
    /\ pc = "uninit_device"
    /\ i = n_buffers
    /\ calls' = Append(calls, "free")
    /\ released' = released + 1
    /\ pc' = "close_device"
    /\ UNCHANGED <<exitCode, is_capture, i, failed, faults, setupVars, devVars,
                   frameVars, stopAt>>

\* close_device: close(fd), whose failure is ignored, then fd = -1; then
\* camera_capture returns 0.
AfterClose(r) == "done"

close_device ==
    /\ pc = "close_device"
    /\ calls' = Append(calls, "close")
    /\ \E r \in {0, -1} :
          /\ IF r = 0 THEN NoFail ELSE Fail("close")
          /\ pc' = AfterClose(r)
    /\ fd' = -1
    /\ exitCode' = IF pc' = "done" THEN 0 ELSE "EXIT_FAILURE"
    /\ UNCHANGED <<is_capture, i, fmt, req_count, n_buffers, buffers, granted,
                   devVars, frameVars, stopAt, released>>

\* ------------------------------------------------------- specification
\* The steps of the program's single thread.
Step ==
    \/ open_device
    \/ init_device
    \/ init_mmap
    \/ init_mmap_loop
    \/ start_capturing
    \/ start_capturing_streamon
    \/ capture_frame
    \/ read_frame
    \/ process_image
    \/ dump_ppm
    \/ dump_ppm_write
    \/ read_frame_qbuf
    \/ capture_frame_sleep
    \/ stop_capturing
    \/ uninit_device
    \/ uninit_device_free
    \/ close_device

Next == Step \/ signalHandler \/ DeviceFill

Spec == Init /\ [][Next]_vars

\* Every system call returns, so the thread keeps taking steps.
FairSpec == Init /\ [][Next]_vars /\ WF_vars(Step)

\* ------------------------------------------------- the clamp on its own
\* unsigned int arithmetic: sums and products wrap modulo UIntMod.
UIntMod == 2 ^ WordBits

\* Values of an unsigned int field the device may report: the small ones and
\* the ones around the middle and the top of the range.
WordVals == {0, 1, 2, 3, UIntMod \div 2 - 1, UIntMod \div 2, UIntMod - 1}

\* What a driver may leave in fmt.fmt.pix after VIDIOC_S_FMT or VIDIOC_G_FMT.
ReportedFmts == {[width |-> w, height |-> h, pixelformat |-> V4L2_PIX_FMT_YUYV,
                  bytesperline |-> bpl, sizeimage |-> sz] :
                    w \in WordVals, h \in WordVals, bpl \in WordVals, sz \in WordVals}

\* Variant: sizeimage is left as the device reported it.
ClampFmtU_NoSizeClamp(f) ==
    LET min1 == (f.width * 2) % UIntMod
        bpl  == IF f.bytesperline < min1 THEN min1 ELSE f.bytesperline
    IN  [f EXCEPT !.bytesperline = bpl]

\* The clamp of init_device in unsigned int arithmetic:
\*   min = width * 2;            if (bytesperline < min) bytesperline = min;
\*   min = bytesperline * height; if (sizeimage < min)    sizeimage = min;
ClampFmtU(f) ==
    LET min1 == (f.width * 2) % UIntMod
        bpl  == IF f.bytesperline < min1 THEN min1 ELSE f.bytesperline
        min2 == (bpl * f.height) % UIntMod
        sz   == IF f.sizeimage < min2 THEN min2 ELSE f.sizeimage
    IN  [f EXCEPT !.bytesperline = bpl, !.sizeimage = sz]

\* init_device between the format ioctl and its return.
ClampInit ==
    /\ pc = "init_device_clamp"
    /\ exitCode = "running"
    /\ fd = 3
    /\ is_capture = TRUE
    /\ fmt \in ReportedFmts
    /\ req_count = 0
    /\ n_buffers = 0
    /\ buffers = << >>
    /\ i = 0
    /\ granted = 0
    /\ inQ = << >>
    /\ doneQ = << >>
    /\ streaming = FALSE
    /\ buf = NoLocalBuf
    /\ readBuf = NoBuf
    /\ framecnt = 0
    /\ bigbuffer = << >>
    /\ dump = NoLocalDump
    /\ files = [t \in {} |-> << >>]
    /\ sel = NoLocalSel
    /\ failed = {}
    /\ faults = 0
    /\ calls = << >>
    /\ woken = FALSE
    /\ stopAt = "none"
    /\ released = 0

init_device_clamp ==
    /\ pc = "init_device_clamp"
    /\ fmt' = ClampFmtU(fmt)
    /\ pc' = "init_mmap"
    /\ UNCHANGED <<exitCode, is_capture, i, failed, faults, fd, req_count,
                   n_buffers, buffers, granted, devVars, frameVars, tearVars>>

ClampNext == init_device_clamp

ClampSpec == ClampInit /\ [][ClampNext]_vars

\* ================================================================ claims

SetupCalls == {"VIDIOC_S_FMT", "VIDIOC_QBUF", "VIDIOC_STREAMON"}
PoolCalls == {"VIDIOC_REQBUFS", "VIDIOC_QUERYBUF", "mmap"}
TeardownCallsFailed == {"VIDIOC_STREAMOFF", "munmap", "close"}

\* C1: process_image reads the memory of a buffer only while the process owns
\* it: the buffer is the one a successful VIDIOC_DQBUF returned, it is not on
\* either of the device's queues, and the read ends before the re-queue.
C1_ReadOnlyProcessOwned ==
    readBuf # NoBuf =>
        /\ buf.r = 0
        /\ readBuf = buf.index
        /\ ~DeviceOwned(readBuf)
        /\ pc \in {"dump_ppm", "dump_ppm_write", "read_frame_qbuf"}

\* A frame has been read out of a dequeued buffer while the device holds others.
C1_Witness ==
    /\ readBuf # NoBuf
    /\ pc = "dump_ppm"
    /\ inQ # << >>
    /\ buf.bytesused > 0

\* C2: when capture_frame has returned, process_image has run exactly once
\* (framecnt has grown from 0 to 1).
C2_ExactlyOneFrame ==
    pc = "stop_capturing" => framecnt = 1

\* C3: once a signal has cleared is_capture while the session was Streaming,
\* the session at the top of the capture loop does not go on to dequeue a frame.
C3_NoIterationAfterStop ==
    [][(stopAt = "Streaming" /\ is_capture = FALSE /\ pc = "capture_frame")
          => pc' # "read_frame"]_vars

\* C4: after VIDIOC_S_FMT, a VIDIOC_QBUF of start_capturing or VIDIOC_STREAMON
\* has failed, the process has terminated with a failure outcome.
C4_SetupFailureFatal ==
    (failed \cap SetupCalls # {}) => (pc = "exited" /\ exitCode = "EXIT_FAILURE")

\* C5: when init_mmap has returned, n_buffers is the granted count, the count
\* is at least 2 and every buffer holds a successful mapping of the reported
\* length; and a failed REQBUFS, QUERYBUF or mmap has ended the process.
C5_PoolInvariant ==
    /\ pc = "start_capturing" =>
          /\ n_buffers = granted
          /\ granted >= 2
          /\ \A k \in 1..n_buffers :
                buffers[k].start # MAP_FAILED /\ buffers[k].length = BufLength
    /\ (failed \cap PoolCalls # {}) => pc = "exited"

\* C6: when dump_ppm has returned, the pixel bytes of the output file (what
\* follows its header) are exactly the first `size` bytes of the RGB buffer,
\* in order.
C6_FileHoldsExactlySize ==
    (pc = "read_frame_qbuf" /\ dump.tag # 0) =>
        /\ dump.tag \in DOMAIN files
        /\ files[dump.tag].pix = SubSeq(bigbuffer, 1, dump.size)

\* C7: dump_ppm always terminates: once entered, it is eventually left.
C7_DumpTerminates ==
    (pc = "dump_ppm") ~> (pc \notin {"dump_ppm", "dump_ppm_write"})

\* The teardown calls of a session with n buffers, in order.
TeardownCalls(n) ==
    <<"VIDIOC_STREAMOFF">> \o [k \in 1..n |-> "munmap"] \o <<"free", "close">>

\* C8: once capture_frame has returned the session reaches Closed: STREAMOFF,
\* one munmap per buffer, free and close have been issued in that order, fd is
\* -1 and the outcome is 0, whichever of them failed.
C8_TeardownCompletes ==
    (pc = "stop_capturing") ~>
        (/\ pc = "done"
         /\ exitCode = 0
         /\ fd = -1
         /\ released = 1
         /\ calls = TeardownCalls(n_buffers))

\* The session is Closed although a teardown call failed.
C8_Witness ==
    /\ pc = "done"
    /\ exitCode = 0
    /\ failed \cap TeardownCallsFailed # {}
    /\ calls = TeardownCalls(n_buffers)

\* C9 as stated: every run that allocated the pool and has ended has released
\* it exactly once.
C9_ReleasedInEveryRun ==
    (pc \in {"exited", "done"} /\ n_buffers > 0) => released = 1

\* C9 amended: the pool is released at most once and only after VIDIOC_STREAMOFF
\* has been issued; exactly once in every run in which camera_capture returns;
\* and the process reads no buffer memory that is unmapped or released.
C9_ReleaseOnceAfterStreamoff ==
    /\ released <= 1
    /\ (pc = "uninit_device" \/ released = 1) =>
          (Len(calls) >= 1 /\ calls[1] = "VIDIOC_STREAMOFF")
    /\ pc = "done" => released = 1
    /\ released = 1 => readBuf = NoBuf
    /\ readBuf # NoBuf => buffers[readBuf + 1].start = "mapped"

\* The pool has been released after a frame was processed.
C9_Witness ==
    /\ released = 1
    /\ framecnt >= 1
    /\ calls[1] = "VIDIOC_STREAMOFF"

\* C10: after select returned -1 with an errno other than EINTR the session has
\* terminated with a failure outcome; it is not about to dequeue a frame.
C10_SelectErrorFatal ==
    (sel[1] = -1 /\ sel[2] # "EINTR") => (pc = "exited" /\ exitCode = "EXIT_FAILURE")

\* ------------------------------------------------------------------ C11
\* C11: a wait that returns with zero ready descriptors ends the session with
\* exit(EXIT_FAILURE) and read_frame is not called for it; as long as no wait
\* of the run has ended otherwise than by timeout or interruption (the device
\* never signalled readiness), framecnt is 0 and no output file exists.
C11_TimeoutFatal ==
    /\ sel[1] = 0 => (pc = "exited" /\ exitCode = "EXIT_FAILURE")
    /\ ~woken => (framecnt = 0 /\ DOMAIN files = {} /\ bigbuffer = << >>
                  /\ pc \notin {"read_frame", "process_image", "dump_ppm",
                                 "dump_ppm_write", "read_frame_qbuf"})

\* The wait timed out on a streaming device with its whole pool queued.
C11_Witness ==
    /\ pc = "exited" /\ sel[1] = 0 /\ ~woken
    /\ streaming /\ Len(inQ) = n_buffers /\ n_buffers >= 2

\* ------------------------------------------------------------------ C12
\* C12: a VIDIOC_DQBUF that fails with EAGAIN or EIO makes read_frame return 0
\* with framecnt, the scratch buffer, the output files and the ownership of
\* every buffer as they were (nothing re-queued), and capture_frame goes back
\* to its next wait; the session does not end.
C12_NoFrameThisIteration ==
    [][(pc = "read_frame" /\ buf'.r = -1 /\ buf'.errno \in {"EAGAIN", "EIO"})
          => /\ pc' = "capture_frame"
             /\ UNCHANGED <<framecnt, bigbuffer, files, readBuf, inQ, doneQ,
                            streaming, exitCode, is_capture>>]_vars

\* read_frame has just returned 0 on EIO although a filled buffer is waiting.
C12_Witness ==
    /\ pc = "capture_frame" /\ buf.r = -1 /\ buf.errno = "EIO"
    /\ doneQ # << >> /\ exitCode = "running"

\* ------------------------------------------------------------------ C13
\* C13: a wait interrupted by a signal (select = -1, EINTR) is not an error:
\* the session stays at the top of the loop, where the next pass sets the
\* timeout afresh, with nothing else changed; and a run in which no call
\* failed and camera_capture returned has processed exactly one frame, torn
\* the session down in order and returned 0.
C13_InterruptedWaitRetried ==
    /\ [][(capture_frame /\ sel'[1] = -1 /\ sel'[2] = "EINTR")
             => /\ pc' = "capture_frame"
                /\ UNCHANGED <<exitCode, framecnt, bigbuffer, files, inQ, doneQ,
                               streaming, failed, faults, woken>>]_vars
    /\ []((pc = "done" /\ faults = 0)
             => (framecnt = 1 /\ exitCode = 0 /\ fd = -1
                 /\ calls = TeardownCalls(n_buffers)))

\* The wait has just been interrupted and the device has a frame ready.
C13_Witness ==
    /\ pc = "capture_frame" /\ sel = <<-1, "EINTR">>
    /\ exitCode = "running" /\ doneQ # << >> /\ faults = 0

\* ------------------------------------------------------------------ C14
\* C14 as stated: whatever width, height, bytesperline and sizeimage the device
\* reported, the clamp leaves bytesperline = max(reported, 2 * width) and
\* sizeimage = max(reported, bytesperline * height), so both bounds hold.
C14_ClampIsMax ==
    [][init_device_clamp
          => /\ fmt'.bytesperline = Max(fmt.bytesperline, 2 * fmt.width)
             /\ fmt'.sizeimage = Max(fmt.sizeimage, fmt'.bytesperline * fmt.height)]_vars

\* C14 amended: the same, for each bound that fits an unsigned int; width,
\* height and pixelformat are never changed.
C14_ClampIsMaxInRange ==
    [][init_device_clamp
          => /\ fmt'.width = fmt.width /\ fmt'.height = fmt.height
             /\ fmt'.pixelformat = fmt.pixelformat
             /\ 2 * fmt.width < UIntMod
                   => fmt'.bytesperline = Max(fmt.bytesperline, 2 * fmt.width)
             /\ fmt'.bytesperline * fmt.height < UIntMod
                   => fmt'.sizeimage = Max(fmt.sizeimage,
                                          fmt'.bytesperline * fmt.height)]_vars

\* Both fields were raised to bounds that fit.
C14_Witness ==
    /\ pc = "init_mmap" /\ fmt.width = 3 /\ fmt.height = 3
    /\ fmt.bytesperline = 6 /\ fmt.sizeimage = 18

\* ------------------------------------------------------------------ C15
\* C15: with a device that granted 6 buffers and delivered YUYV frames, a run
\* of camera_capture in which no call failed ends with framecnt = 1 and
\* exactly one output file, that of tag 1, whose path is
\* frames/test00000001.ppm and whose pixel payload is the converted frame:
\* bytesused * 6 / 4 bytes, which is 230400 = 320 * 240 * 3 for a full
\* 153600-byte frame.
C15_EndToEnd ==
    /\ PpmName(1) = <<"f", "r", "a", "m", "e", "s", "/", "t", "e", "s", "t",
                      "0", "0", "0", "0", "0", "0", "0", "1", ".", "p", "p", "m">>
    /\ DumpSize(HRES * VRES * 2) = 230400
    /\ DumpSize(HRES * VRES * 2) = HRES * VRES * 3
    /\ (pc = "read_frame_qbuf" /\ faults = 0 /\ fmt.pixelformat = V4L2_PIX_FMT_YUYV)
          => /\ dump.tag = framecnt
             /\ Len(files[dump.tag].pix) = (buf.bytesused * 6) \div 4
    /\ (pc = "done" /\ faults = 0 /\ granted = ReqCount
           /\ fmt.pixelformat = V4L2_PIX_FMT_YUYV)
          => /\ framecnt = 1
             /\ exitCode = 0
             /\ DOMAIN files = {1}
             /\ files[1].hdr = 1
             /\ files[1].pix = bigbuffer

\* The session with 6 buffers is Closed and left one file with a whole frame.
C15_Witness ==
    /\ pc = "done" /\ faults = 0 /\ granted = ReqCount /\ n_buffers = ReqCount
    /\ fmt.pixelformat = V4L2_PIX_FMT_YUYV
    /\ DOMAIN files = {1}
    /\ Len(files[1].pix) = (MaxBytesUsed \div 4) * 6

\* ------------------------------------------------------------------ C16
\* C16: when the negotiated pixel format is not YUYV, process_image, handed a
\* dequeued frame, leaves the output files, the scratch buffer and the frame counter as they were, the
\* process does not end, and control goes on to the re-queue of the buffer.
C16_UnknownFormatNotCounted ==
    [][(process_image /\ buf.r = 0 /\ fmt.pixelformat # V4L2_PIX_FMT_YUYV)
          => /\ framecnt' = framecnt
             /\ files' = files
             /\ bigbuffer' = bigbuffer
             /\ exitCode' = exitCode
             /\ pc' = "read_frame_qbuf"]_vars

\* ------------------------------------------------------------------ C17
\* The intermediate values of the conversion formula: C = Y - 16, D = U - 128,
\* E = V - 128, each sum shifted right by 8 (flooring).
RawRGB(y, u, v) ==
    LET C == y - 16
        D == u - 128
        E == v - 128
    IN  << (298 * C + 409 * E + 128) \div 256,
           (298 * C - 100 * D - 208 * E + 128) \div 256,
           (298 * C + 516 * D + 128) \div 256 >>

\* clamp: bounding to 0..255.
Bounded(x) == IF x < 0 THEN 0 ELSE IF x > 255 THEN 255 ELSE x

\* conv(Y, U, V) = <<R, G, B>>
Conv(y, u, v) == [c \in 1..3 |-> Bounded(RawRGB(y, u, v)[c])]

\* C17: after process_image, for every whole pixel pair (Y0, U, Y1, V) at
\* frame offset 4k the scratch buffer holds conv(Y0, U, V) at 6k .. 6k + 2 and
\* conv(Y1, U, V) at 6k + 3 .. 6k + 5; conv(16, 128, 128) is black and
\* conv(235, 128, 128) is white.
C17_PairLayout ==
    /\ Conv(16, 128, 128) = <<0, 0, 0>>
    /\ Conv(235, 128, 128) = <<255, 255, 255>>
    /\ pc = "dump_ppm" =>
          \A k \in 0..(buf.bytesused \div 4 - 1) :
             LET Y0 == FrameByte(buf.pat, 4 * k)
                 U  == FrameByte(buf.pat, 4 * k + 1)
                 Y1 == FrameByte(buf.pat, 4 * k + 2)
                 V  == FrameByte(buf.pat, 4 * k + 3)
             IN  /\ SubSeq(bigbuffer, 6 * k + 1, 6 * k + 3) = Conv(Y0, U, V)
                 /\ SubSeq(bigbuffer, 6 * k + 4, 6 * k + 6) = Conv(Y1, U, V)

\* Two different pairs were converted, the first of them to white.
C17_Witness ==
    /\ pc = "dump_ppm" /\ buf.bytesused = 8
    /\ SubSeq(buf.pat, 1, 4) = <<235, 128, 20, 128>>
    /\ SubSeq(bigbuffer, 1, 3) = <<255, 255, 255>>
    /\ SubSeq(bigbuffer, 7, 12) # SubSeq(bigbuffer, 1, 6)

\* ------------------------------------------------------------------ C18
\* C18: every byte process_image stored is within 0..255 and is the clamped
\* intermediate value of its channel: the intermediate itself when that lies
\* in 0..255, else the nearer end; nothing wraps when the int is narrowed.
C18_StoredIsClamped ==
    pc = "dump_ppm" =>
       \A j \in 1..Len(bigbuffer) :
          LET k   == (j - 1) \div 6
              o   == (j - 1) % 6
              raw == RawRGB(FrameByte(buf.pat, 4 * k + (IF o < 3 THEN 0 ELSE 2)),
                            FrameByte(buf.pat, 4 * k + 1),
                            FrameByte(buf.pat, 4 * k + 3))[(o % 3) + 1]
          IN  /\ bigbuffer[j] \in 0..255
              /\ raw \in 0..255 => bigbuffer[j] = raw
              /\ raw < 0 => bigbuffer[j] = 0
              /\ raw > 255 => bigbuffer[j] = 255

\* One pixel whose red intermediate is negative and whose blue one exceeds 255.
C18_Witness ==
    /\ pc = "dump_ppm" /\ buf.bytesused >= 4
    /\ RawRGB(buf.pat[1], buf.pat[2], buf.pat[4])[1] < 0
    /\ RawRGB(buf.pat[1], buf.pat[2], buf.pat[4])[3] > 255
    /\ bigbuffer[1] = 0 /\ bigbuffer[3] = 255

\* ------------------------------------------------------------------ C19
\* C19: for a frame of any byte count up to the mapped length, every index
\* process_image writes in bigbuffer is below its capacity and every index it
\* reads in the frame is below the frame's byte count.
C19_IndicesInBounds ==
    (pc = "dump_ppm" /\ buf.bytesused <= buffers[buf.index + 1].length) =>
       /\ \A w \in WriteIdx(buf.bytesused) : w < BigBufferSize
       /\ \A r \in ReadIdx(buf.bytesused) : r < buf.bytesused

\* ------------------------------------------------------------------ C20
\* C20: the capture loop is bounded: from the wait, the session eventually
\* leaves the wait-and-dequeue loop (to process a frame or to exit), whatever
\* the device and the signals do.
C20_LoopBounded ==
    (pc = "capture_frame") ~> (pc \notin {"capture_frame", "read_frame"})
====
